---- MODULE Spec2Model ----
(***************************************************************************)
(* go-generics-cache: the policy caches (simple, lru, fifo) and the        *)
(* TTL facade (Cache) that guards one policy cache with a sync.RWMutex.    *)
(*                                                                         *)
(* SpecPolicy drives one policy cache from a single thread, the way the    *)
(* unit tests do; SpecDelete and SpecReSet do so at a capacity of three.   *)
(* Spec drives the facade from concurrent callers.  SpecNX is the facade   *)
(* with callers that only issue SetNX, once each.  SpecRound is one caller *)
(* of Set, Get and SetNX on the facade at every capacity.  SpecError is    *)
(* the facade over the errorCache of the tests.                            *)
(* SpecSweep runs DeleteExpired next to                                    *)
(* callers of Set, Delete and Keys; SpecSweepLru runs it over lru.Cache.   *)
(* SpecLruShared is the facade over lru.Cache with two callers and the     *)
(* sweep.  SpecJanitor is the janitor of the facade, and SpecJanitorLive   *)
(* the same under fair scheduling.  SpecClose is Close and the cleanup     *)
(* goroutine of cache.go.                                                  *)
(***************************************************************************)
EXTENDS Integers, Sequences, FiniteSets, TLC

VARIABLES
    policy,            \* which types.ICache implementation the run uses
    maxEntries,        \* lru/fifo Cache.maxEntries
    cache,             \* lru/fifo Cache.cache: key -> *list.Element (its id)
    linkedDoublyList,  \* lru/fifo Cache.linkedDoublyList, front first
    simpleCache,       \* simple.Cache.cache: key -> value
    panicked,          \* a nil dereference has unwound the calling goroutine
    last,              \* SpecPolicy: the call that completed last
    inserted,          \* SpecPolicy: keys Set so far while the run is distinct Sets only
    fresh,             \* SpecPolicy: the run so far is Sets of distinct keys only
    now,               \* time.Now()
    mutexW,            \* Cache.mutex: the goroutine holding the write lock
    mutexR,            \* Cache.mutex: the goroutines holding the read lock
    pc,                \* per caller: where it stands in its facade call
    call,              \* per caller: the arguments of its facade call
    ret,               \* per caller: what its facade call returns
    stored,            \* per key: when and with which options the facade stored its item
    nxret,             \* SpecNX: per caller, the result of its one SetNX call
    sweep,             \* SpecSweep: the goroutine running Cache.DeleteExpired
    torn,              \* SpecSweep: callers whose unlocked Keys() read a write has overlapped
    janitor,           \* SpecJanitor: the janitor and the goroutine that run() starts
    once,              \* SpecJanitor: janitor.once
    stopPc,            \* SpecJanitor: per caller of janitor.stop, where it stands in the call
    cleaner,           \* SpecClose: the goroutine that Cache.cleanup starts
    closeOnce,         \* SpecClose: Cache.once
    closePc            \* SpecClose: per caller of Cache.Close, where it stands in the call

policyVars == <<policy, maxEntries, cache, linkedDoublyList, simpleCache, panicked>>
seqVars    == <<last, inserted, fresh>>
facadeVars == <<now, mutexW, mutexR, pc, call, ret, stored, nxret>>
jVars      == <<janitor, once, stopPc>>
cVars      == <<cleaner, closeOnce, closePc>>
bgVars     == <<sweep, torn, jVars, cVars>>
vars       == <<policyVars, seqVars, facadeVars, bgVars>>

(* Bounds of the model. *)
MaxCap       == 2    \* SpecPolicy: capacities 0..MaxCap
MaxTime      == 3    \* the clock runs from 1 to MaxTime
MaxDur       == 1    \* WithExpiration takes 0..MaxDur
SweepLimit   == 1    \* stands for the 10000 of DeleteExpired, scaled to the key space
MidCap       == 3    \* SpecDelete: a capacity at which a key has neighbours on both sides
MaxRuns      == 2    \* SpecJanitor, SpecClose: cleanup calls are counted up to MaxRuns
MaxStops     == 2    \* SpecJanitor: returns of janitor.stop are counted up to MaxStops

\* One key more than the largest capacity, so that a full cache meets a new key.
KeySet    == 1..(MaxCap + 1)
\* The caches never inspect a value: two tell the old one from the new one.
Values    == {1, 2}
Caps      == 0..MaxCap
Durations == 0..MaxDur
\* The facade never looks at the capacity or the order of its policy cache
\* (SpecPolicy covers them): one capacity at which a second key evicts.
FacadeCaps == {1}
FacadeKeys == {1, 2}
\* SpecDelete: a full cache and one key it does not hold; one value is enough.
MidKeys   == 1..(MidCap + 1)
MidValues == {1}
\* SpecReSet: the keys that fill the cache and no other
ReSetKeys == 1..MidCap
\* SpecSweep: two keys more than the limit, so that a snapshot can outrun it.
SweepKeys   == 1..(SweepLimit + 2)
SweepValues == {1}
SweepOpts   == {<<0>>}         \* SpecSweep: items that expire when the clock moves on
RoundOpts   == {<<>>, <<0>>}   \* SpecRound: no expiration, and the shortest one
Writers     == {"p1"}          \* SpecSweep: the goroutines that call Set
Readers     == {"p2"}          \* SpecSweep: the goroutines that call Keys
StoredKeys  == KeySet \cup SweepKeys
Sweeper     == "sweeper"   \* the goroutine that runs DeleteExpired
Procs     == {"p1", "p2", "p3"}
Callers   == {"p1", "p2"}   \* the goroutines that call the facade in Spec

Nil      == "nil"        \* a nil error
ErrNoKey == "ErrNoKey"   \* cacheError.ErrNoKey
ErrGet   == "get error"  \* the error that errorCache.Get returns
None     == "none"       \* no goroutine, no call, no record
ZeroV    == 0            \* the zero value of V that a failed Get returns
ZeroTime == 0            \* time.Time{}: Item.expiration when no option set it

EmptyMap == [k \in {} |-> 0]

(***************************************************************************)
(* container/list, as the policy caches use it.  An element carries its    *)
(* identity (the pointer the map stores) and its *entry (key, value).      *)
(***************************************************************************)
ElemIds(l) == {l[i].id : i \in DOMAIN l}

NewElemId(l) == CHOOSE n \in 1..(Len(l) + 1) : n \notin ElemIds(l)

ElemOf(l, e) == l[CHOOSE i \in DOMAIN l : l[i].id = e]

ListRemove(l, e) == SelectSeq(l, LAMBDA x : x.id # e)

MoveToFront(l, e) == <<ElemOf(l, e)>> \o ListRemove(l, e)

MoveToBack(l, e) == ListRemove(l, e) \o <<ElemOf(l, e)>>

PushFront(l, key, value) == <<[id |-> NewElemId(l), key |-> key, value |-> value]>> \o l

PushBack(l, key, value) == l \o <<[id |-> NewElemId(l), key |-> key, value |-> value]>>

SetEntryValue(l, e, value) ==
    [i \in DOMAIN l |-> IF l[i].id = e THEN [l[i] EXCEPT !.value = value] ELSE l[i]]

MapDelete(m, key) == [k \in (DOMAIN m) \ {key} |-> m[k]]

MapPut(m, key, x) == [k \in (DOMAIN m) \cup {key} |-> IF k = key THEN x ELSE m[k]]

\* What a lookup of a held key finds in map m over list l.
StoredIn(m, l, key) == ElemOf(l, m[key]).value

Reverse(s) == [i \in 1..Len(s) |-> s[Len(s) + 1 - i]]

KeysOf(l) == [i \in 1..Len(l) |-> l[i].key]

(* The result of one policy call: the fields it leaves behind and what it returns. *)
Result(m, l, s, v, err, pan) ==
    [cache |-> m, list |-> l, simple |-> s, v |-> v, err |-> err, panic |-> pan]

(***************************************************************************)
(* lru.Cache                                                               *)
(***************************************************************************)
LruVictimFront(l) == l[1]

LruVictimExpiredFirst(l) ==
    LET ex == {i \in DOMAIN l : /\ l[i].value.expiration # ZeroTime
                                /\ l[i].value.expiration < now}
    IN IF ex # {} THEN l[CHOOSE i \in ex : TRUE] ELSE l[Len(l)]

LruVictim(l) == l[Len(l)]

LruOverflowAtCap(l) == Len(l) >= maxEntries

LruOverflow(l) == Len(l) > maxEntries

LruPromoteNone(l, e) == l

LruPromote(l, e) == MoveToFront(l, e)

LruSet(key, value) ==
    IF key \in DOMAIN cache
    THEN LET e == cache[key]
         IN Result(cache, SetEntryValue(LruPromote(linkedDoublyList, e), e, value),
                   simpleCache, ZeroV, Nil, FALSE)
    ELSE LET l1 == PushFront(linkedDoublyList, key, value)
             m1 == MapPut(cache, key, l1[1].id)
         IN IF LruOverflow(l1)
            THEN LET b == LruVictim(l1)
                 IN Result(MapDelete(m1, b.key), ListRemove(l1, b.id),
                           simpleCache, ZeroV, Nil, FALSE)
            ELSE Result(m1, l1, simpleCache, ZeroV, Nil, FALSE)

LruGet(key) ==
    IF key \in DOMAIN cache
    THEN LET e == cache[key]
             l1 == LruPromote(linkedDoublyList, e)
         IN Result(cache, l1, simpleCache, ElemOf(l1, e).value, Nil, FALSE)
    ELSE Result(cache, linkedDoublyList, simpleCache, ZeroV, ErrNoKey, FALSE)

LruDeleteMapOnly(key) ==
    IF key \in DOMAIN cache
    THEN Result(MapDelete(cache, key), linkedDoublyList, simpleCache, ZeroV, Nil, FALSE)
    ELSE Result(cache, linkedDoublyList, simpleCache, ZeroV, ErrNoKey, FALSE)

LruDelete(key) ==
    IF key \in DOMAIN cache
    THEN Result(MapDelete(cache, key), ListRemove(linkedDoublyList, cache[key]),
                simpleCache, ZeroV, Nil, FALSE)
    ELSE Result(cache, linkedDoublyList, simpleCache, ZeroV, ErrNoKey, FALSE)

LruKeys == Reverse(KeysOf(linkedDoublyList))

(***************************************************************************)
(* fifo.Cache                                                              *)
(***************************************************************************)
FifoFullLate(l) == Len(l) > maxEntries

FifoFull(l) == Len(l) >= maxEntries

FifoRequeueNone(l, e) == l

FifoRequeue(l, e) == MoveToBack(l, e)

FifoVictimBack(l) == l[Len(l)]

FifoVictim(l) == l[1]

FifoSet(key, value) ==
    IF key \in DOMAIN cache
    THEN LET e == cache[key]
         IN Result(cache, SetEntryValue(FifoRequeue(linkedDoublyList, e), e, value),
                   simpleCache, ZeroV, Nil, FALSE)
    ELSE IF FifoFull(linkedDoublyList)
         THEN IF linkedDoublyList = <<>>
              \* Front() is nil and Remove(nil) dereferences it
              THEN Result(cache, linkedDoublyList, simpleCache, ZeroV, Nil, TRUE)
              ELSE LET f  == FifoVictim(linkedDoublyList)
                       l1 == ListRemove(linkedDoublyList, f.id)
                       m1 == MapDelete(cache, f.key)
                       l2 == PushBack(l1, key, value)
                   IN Result(MapPut(m1, key, l2[Len(l2)].id), l2,
                             simpleCache, ZeroV, Nil, FALSE)
         ELSE LET l2 == PushBack(linkedDoublyList, key, value)
              IN Result(MapPut(cache, key, l2[Len(l2)].id), l2,
                        simpleCache, ZeroV, Nil, FALSE)

FifoGetPromoting(key) ==
    IF key \in DOMAIN cache
    THEN LET l1 == MoveToBack(linkedDoublyList, cache[key])
         IN Result(cache, l1, simpleCache, ElemOf(l1, cache[key]).value, Nil, FALSE)
    ELSE Result(cache, linkedDoublyList, simpleCache, ZeroV, ErrNoKey, FALSE)

FifoGet(key) ==
    IF key \in DOMAIN cache
    THEN Result(cache, linkedDoublyList, simpleCache,
                ElemOf(linkedDoublyList, cache[key]).value, Nil, FALSE)
    ELSE Result(cache, linkedDoublyList, simpleCache, ZeroV, ErrNoKey, FALSE)

FifoDeleteQuiet(key) ==
    IF key \in DOMAIN cache
    THEN Result(MapDelete(cache, key), ListRemove(linkedDoublyList, cache[key]),
                simpleCache, ZeroV, Nil, FALSE)
    ELSE Result(cache, linkedDoublyList, simpleCache, ZeroV, Nil, FALSE)

FifoDelete(key) ==
    IF key \in DOMAIN cache
    THEN Result(MapDelete(cache, key), ListRemove(linkedDoublyList, cache[key]),
                simpleCache, ZeroV, Nil, FALSE)
    ELSE Result(cache, linkedDoublyList, simpleCache, ZeroV, ErrNoKey, FALSE)

FifoKeys == KeysOf(linkedDoublyList)

(***************************************************************************)
(* simple.Cache                                                            *)
(***************************************************************************)
SimpleSet(key, value) ==
    Result(cache, linkedDoublyList, MapPut(simpleCache, key, value), ZeroV, Nil, FALSE)

SimpleGet(key) ==
    IF key \in DOMAIN simpleCache
    THEN Result(cache, linkedDoublyList, simpleCache, simpleCache[key], Nil, FALSE)
    ELSE Result(cache, linkedDoublyList, simpleCache, ZeroV, ErrNoKey, FALSE)

SimpleDeleteStrict(key) ==
    IF key \in DOMAIN simpleCache
    THEN Result(cache, linkedDoublyList, MapDelete(simpleCache, key), ZeroV, Nil, FALSE)
    ELSE Result(cache, linkedDoublyList, simpleCache, ZeroV, ErrNoKey, FALSE)

SimpleDeleteClear(key) ==
    Result(cache, linkedDoublyList, EmptyMap, ZeroV, Nil, FALSE)

SimpleDelete(key) ==
    Result(cache, linkedDoublyList, MapDelete(simpleCache, key), ZeroV, Nil, FALSE)

(***************************************************************************)
(* errorCache: the policy cache of the tests whose Get always fails.       *)
(***************************************************************************)
ErrorSet(key, value) ==
    Result(cache, linkedDoublyList, simpleCache, ZeroV, Nil, FALSE)

ErrorGet(key) ==
    Result(cache, linkedDoublyList, simpleCache, ZeroV, ErrGet, FALSE)

ErrorDelete(key) ==
    Result(cache, linkedDoublyList, simpleCache, ZeroV, Nil, FALSE)

ErrorKeys == <<>>

(***************************************************************************)
(* types.ICache: the call goes to the implementation the cache was built   *)
(* with.                                                                   *)
(***************************************************************************)
InnerSet(key, value) ==
    CASE policy = "lru"    -> LruSet(key, value)
      [] policy = "fifo"   -> FifoSet(key, value)
      [] policy = "simple" -> SimpleSet(key, value)
      [] policy = "error"  -> ErrorSet(key, value)

InnerGet(key) ==
    CASE policy = "lru"    -> LruGet(key)
      [] policy = "fifo"   -> FifoGet(key)
      [] policy = "simple" -> SimpleGet(key)
      [] policy = "error"  -> ErrorGet(key)

InnerDeleteKeep(key) == [InnerGet(key) EXCEPT !.v = ZeroV]

InnerDelete(key) ==
    CASE policy = "lru"    -> LruDelete(key)
      [] policy = "fifo"   -> FifoDelete(key)
      [] policy = "simple" -> SimpleDelete(key)
      [] policy = "error"  -> ErrorDelete(key)

(* The keys the policy cache holds. *)
Held == IF policy = "simple" THEN DOMAIN simpleCache ELSE DOMAIN cache

Apply(r) ==
    /\ cache' = r.cache
    /\ linkedDoublyList' = r.list
    /\ simpleCache' = r.simple
    /\ panicked' = r.panic

(***************************************************************************)
(* SpecPolicy: one goroutine calling a policy cache directly.              *)
(***************************************************************************)
NoCall == [op |-> None, key |-> 0, value |-> 0, v |-> ZeroV, err |-> Nil,
           hit |-> FALSE, evicted |-> {}, afterHit |-> 0, at |-> 0]

\* Where key stands in the list (front is 1), 0 when it is not there
PosIn(l, key) ==
    IF \E i \in DOMAIN l : l[i].key = key
    THEN CHOOSE i \in DOMAIN l : l[i].key = key
    ELSE 0

Done(op, key, value, r) ==
    [op |-> op, key |-> key, value |-> value, v |-> r.v, err |-> r.err,
     hit |-> key \in Held, afterHit |-> 0, at |-> PosIn(linkedDoublyList, key),
     evicted |-> Held \ (IF policy = "simple" THEN DOMAIN r.simple ELSE DOMAIN r.cache)]

NoArgs == [op |-> None, key |-> 0, value |-> 0, opts |-> <<>>]
NoRet  == [err |-> None]
NoSet  == [t |-> 0, opts |-> <<>>, value |-> 0]
NoNX   == [done |-> FALSE, key |-> 0, value |-> 0, b |-> FALSE, err |-> Nil]

Task     == "task"          \* the goroutine that janitor.run starts
Stoppers == {"s1", "s2"}    \* goroutines that call janitor.stop from outside
StopCallers == Stoppers \cup {Task}
Closers  == {"c1", "c2"}    \* goroutines that call Cache.Close

\* newJanitor: the context live, done open, once unused; run not yet looping
InitJanitorIdle ==
    /\ janitor = [pc |-> "select", tick |-> FALSE, ctxDone |-> FALSE, done |-> "open",
                  num |-> 0, running |-> 0, closes |-> 0, closer |-> None,
                  stops |-> 0, panic |-> FALSE]
    /\ once = [done |-> FALSE, m |-> None]
    /\ stopPc = [c \in StopCallers |-> "idle"]

\* NewSimpleCache of cache.go: close made, once unused, cleanup looping
InitCloseIdle ==
    /\ cleaner = [pc |-> "select", tick |-> FALSE, sweeps |-> 0]
    /\ closeOnce = [done |-> FALSE, m |-> None, by |-> None]
    /\ closePc = [c \in Closers |-> "idle"]

\* DeleteExpired is not running
SweepIdle == [pc |-> "idle", keys |-> <<>>, pos |-> 1, i |-> 0, examined |-> <<>>,
              found |-> <<>>, allExpired |-> FALSE, quiet |-> FALSE]

InitFacadeIdle ==
    /\ now = 1
    /\ mutexW = None
    /\ mutexR = {}
    /\ pc = [p \in Procs |-> "idle"]
    /\ call = [p \in Procs |-> NoArgs]
    /\ ret = [p \in Procs |-> NoRet]
    /\ stored = [k \in StoredKeys |-> NoSet]
    /\ nxret = [p \in Procs |-> NoNX]
    /\ sweep = SweepIdle
    /\ torn = {}
    /\ InitJanitorIdle
    /\ InitCloseIdle

InitPolicy ==
    /\ policy \in {"lru", "fifo", "simple"}
    /\ maxEntries \in Caps
    /\ policy = "simple" => maxEntries = 0
    /\ cache = EmptyMap
    /\ linkedDoublyList = <<>>
    /\ simpleCache = EmptyMap
    /\ panicked = FALSE
    /\ last = NoCall
    /\ inserted = <<>>
    /\ fresh = TRUE
    /\ InitFacadeIdle

PolicySet(key, value) ==
    /\ ~panicked
    /\ LET r == InnerSet(key, value)
       IN /\ Apply(r)
          /\ last' = [Done("Set", key, value, r) EXCEPT !.afterHit =
                           IF last.op = "Get" /\ last.err = Nil THEN last.key ELSE 0]
          /\ fresh' = (fresh /\ key \notin Held /\ ~r.panic
                       /\ \A i \in DOMAIN inserted : inserted[i] # key)
          /\ inserted' = IF fresh' THEN Append(inserted, key) ELSE <<>>
    /\ UNCHANGED <<policy, maxEntries, facadeVars, bgVars>>

PolicyGet(key) ==
    /\ ~panicked
    /\ LET r == InnerGet(key)
       IN /\ Apply(r)
          /\ last' = Done("Get", key, 0, r)
    /\ fresh' = FALSE
    /\ inserted' = <<>>
    /\ UNCHANGED <<policy, maxEntries, facadeVars, bgVars>>

PolicyDelete(key) ==
    /\ ~panicked
    /\ LET r == InnerDelete(key)
       IN /\ Apply(r)
          /\ last' = Done("Delete", key, 0, r)
    /\ fresh' = FALSE
    /\ inserted' = <<>>
    /\ UNCHANGED <<policy, maxEntries, facadeVars, bgVars>>

NextPolicy ==
    \/ \E k \in KeySet, v \in Values : PolicySet(k, v)
    \/ \E k \in KeySet : PolicyGet(k)
    \/ \E k \in KeySet : PolicyDelete(k)

SpecPolicy == InitPolicy /\ [][NextPolicy]_vars

(***************************************************************************)
(* SpecDelete: an lru or fifo cache large enough for a key to stand in the *)
(* middle, with two other keys around it, driven by one goroutine.         *)
(***************************************************************************)
InitDelete ==
    /\ policy \in {"lru", "fifo"}
    /\ maxEntries = MidCap
    /\ cache = EmptyMap
    /\ linkedDoublyList = <<>>
    /\ simpleCache = EmptyMap
    /\ panicked = FALSE
    /\ last = NoCall
    /\ inserted = <<>>
    /\ fresh = TRUE
    /\ InitFacadeIdle

NextDelete ==
    \/ \E k \in MidKeys, v \in MidValues : PolicySet(k, v)
    \/ \E k \in MidKeys : PolicyGet(k)
    \/ \E k \in MidKeys : PolicyDelete(k)

SpecDelete == InitDelete /\ [][NextDelete]_vars

(***************************************************************************)
(* SpecReSet: an lru cache of capacity MidCap that one goroutine fills     *)
(* and then sets and reads again, with an old value and a new one.         *)
(***************************************************************************)
InitReSet ==
    /\ policy = "lru"
    /\ maxEntries = MidCap
    /\ cache = EmptyMap
    /\ linkedDoublyList = <<>>
    /\ simpleCache = EmptyMap
    /\ panicked = FALSE
    /\ last = NoCall
    /\ inserted = <<>>
    /\ fresh = TRUE
    /\ InitFacadeIdle

NextReSet ==
    \/ \E k \in ReSetKeys, v \in Values : PolicySet(k, v)
    \/ \E k \in ReSetKeys : PolicyGet(k)

SpecReSet == InitReSet /\ [][NextReSet]_vars

(***************************************************************************)
(* The facade: Cache[K, V] over types.ICache[K, *Item[V]].                 *)
(***************************************************************************)
Opts == {<<>>} \cup {<<d>> : d \in Durations}

\* WithExpiration(exp) applied to the options record at time t
WithExpiration(exp, t) == t + exp

RECURSIVE ApplyOpts(_, _, _)
ApplyOpts(opts, expiration, t) ==
    IF opts = <<>> THEN expiration
    ELSE ApplyOpts(Tail(opts), WithExpiration(Head(opts), t), t)

newItemFromNow(value, opts) ==
    [value |-> value, expiration |-> ApplyOpts(opts, now, now)]

newItem(value, opts) ==
    [value |-> value, expiration |-> ApplyOpts(opts, ZeroTime, now)]

ExpiredInclusive(item) == item.expiration # ZeroTime /\ item.expiration <= now

Expired(item) == item.expiration # ZeroTime /\ item.expiration < now

\* sync.RWMutex
Lock(p) == mutexW = None /\ mutexR = {} /\ mutexW' = p /\ mutexR' = mutexR

RLock(p) == mutexW = None /\ mutexW' = mutexW /\ mutexR' = mutexR \cup {p}

Unlock(p) ==
    /\ mutexW' = IF mutexW = p THEN None ELSE mutexW
    /\ mutexR' = mutexR \ {p}

RUnlockKeeps(p) == UNCHANGED <<mutexW, mutexR>>

RUnlock(p) == Unlock(p)

\* The item a held key has in the policy cache.
ItemOf(key) ==
    IF policy = "simple" THEN simpleCache[key]
    ELSE StoredIn(cache, linkedDoublyList, key)

GetAcquire(p) == RLock(p)

SetAcquire(p) == Lock(p)

SetNXAcquireShared(p) == RLock(p)

SetNXAcquire(p) == Lock(p)

DeleteAcquire(p) == Lock(p)

\* What Cache.Get returns for the result r of the inner Get
GetOutcome(r) ==
    IF r.err # Nil THEN [v |-> ZeroV, err |-> r.err]
    ELSE IF Expired(r.v) THEN [v |-> ZeroV, err |-> ErrNoKey]
    ELSE [v |-> r.v.value, err |-> Nil]

SetNXDecisionAnyError(r) == IF r.err # Nil THEN "set" ELSE "present"

SetNXDecisionBlind(r) == IF r.err = Nil \/ r.err = ErrNoKey THEN "set" ELSE "error"

\* What Cache.SetNX does with the result r of the inner Get: go on to Set, or return
SetNXDecision(r) ==
    IF r.err # Nil
    THEN IF r.err = ErrNoKey THEN "set" ELSE "error"
    ELSE "present"

\* What Cache.Delete returns for the result r of the inner Delete
DeleteOutcome(r) == r.err

Idle(p) == ~panicked /\ pc[p] = "idle"

\* A step of a caller: a sweep that is under way no longer runs alone
SweepBystander ==
    /\ sweep' = IF sweep.pc = "idle" THEN sweep ELSE [sweep EXCEPT !.quiet = FALSE]
    /\ UNCHANGED <<jVars, cVars>>

\* A step that changes the policy cache overlaps every Keys() read in progress
TornAfter ==
    IF <<cache', linkedDoublyList', simpleCache'>> # <<cache, linkedDoublyList, simpleCache>>
    THEN torn \cup {q \in Procs : pc[q] = "Keys"}
    ELSE torn

Bystander == SweepBystander /\ torn' = TornAfter

\* stored after a call that changed the policy cache to hold the keys in held
Forget(held) == [k \in StoredKeys |-> IF k \in held THEN stored[k] ELSE NoSet]

\* What a call finds under its key when its body runs
Saw(key) ==
    IF key \notin Held THEN "absent"
    ELSE IF Expired(ItemOf(key)) THEN "expired" ELSE "live"

HeldAfter(r) == IF policy = "simple" THEN DOMAIN r.simple ELSE DOMAIN r.cache

\* The keys that the inner call which gave r removed, each with what it held
Dropped(r) == {<<k, Saw(k)>> : k \in Held \ HeldAfter(r)}

\* stored after the inner Set of call c gave r
StoredAfter(r, c) ==
    [Forget(HeldAfter(r)) EXCEPT ![c.key] =
        IF c.key \in HeldAfter(r)
        THEN [t |-> now, opts |-> c.opts, value |-> c.value]
        ELSE NoSet]

GetCall(p, key) ==
    /\ Idle(p)
    /\ GetAcquire(p)
    /\ pc' = [pc EXCEPT ![p] = "Get"]
    /\ call' = [call EXCEPT ![p] = [op |-> "Get", key |-> key, value |-> 0, opts |-> <<>>]]
    /\ UNCHANGED <<policyVars, seqVars, now, ret, stored, nxret>>
    /\ Bystander

GetBodyPurging(p) ==
    /\ ~panicked /\ pc[p] = "Get"
    /\ LET g == InnerGet(call[p].key)
           r == IF g.err = Nil /\ Expired(g.v) THEN InnerDelete(call[p].key) ELSE g
       IN /\ Apply(r)
          /\ ret' = [ret EXCEPT ![p] = GetOutcome(g)]
          /\ stored' = Forget(HeldAfter(r))
    /\ pc' = [pc EXCEPT ![p] = "GetRet"]
    /\ UNCHANGED <<policy, maxEntries, seqVars, now, mutexW, mutexR, call, nxret>>
    /\ Bystander

GetBody(p) ==
    /\ ~panicked /\ pc[p] = "Get"
    /\ LET r == InnerGet(call[p].key)
       IN /\ Apply(r)
          /\ ret' = [ret EXCEPT ![p] = GetOutcome(r)]
    /\ pc' = [pc EXCEPT ![p] = "GetRet"]
    /\ UNCHANGED <<policy, maxEntries, seqVars, now, mutexW, mutexR, call, stored, nxret>>
    /\ Bystander

Return(p, at) ==
    /\ ~panicked /\ pc[p] = at
    /\ Unlock(p)
    /\ pc' = [pc EXCEPT ![p] = "idle"]
    /\ call' = [call EXCEPT ![p] = NoArgs]
    /\ ret' = [ret EXCEPT ![p] = NoRet]
    /\ UNCHANGED <<policyVars, seqVars, now, stored>>
    /\ Bystander

GetReturn(p) == Return(p, "GetRet") /\ UNCHANGED nxret

SetCall(p, key, value, opts) ==
    /\ Idle(p)
    /\ SetAcquire(p)
    /\ pc' = [pc EXCEPT ![p] = "Set"]
    /\ call' = [call EXCEPT ![p] = [op |-> "Set", key |-> key, value |-> value, opts |-> opts]]
    /\ UNCHANGED <<policyVars, seqVars, now, ret, stored, nxret>>
    /\ Bystander

SetBody(p) ==
    /\ ~panicked /\ pc[p] = "Set"
    /\ LET c == call[p]
           r == InnerSet(c.key, newItem(c.value, c.opts))
       IN /\ Apply(r)
          /\ ret' = [ret EXCEPT ![p] = [err |-> r.err, out |-> Dropped(r)]]
          /\ stored' = StoredAfter(r, c)
    /\ pc' = [pc EXCEPT ![p] = "SetRet"]
    /\ UNCHANGED <<policy, maxEntries, seqVars, now, mutexW, mutexR, call, nxret>>
    /\ Bystander

SetReturn(p) == Return(p, "SetRet") /\ UNCHANGED nxret

SetNXEnter(p, key, value, opts) ==
    /\ Idle(p)
    /\ SetNXAcquire(p)
    /\ pc' = [pc EXCEPT ![p] = "SetNXGet"]
    /\ call' = [call EXCEPT ![p] = [op |-> "SetNX", key |-> key, value |-> value, opts |-> opts]]
    /\ UNCHANGED <<policyVars, seqVars, now, ret, stored>>
    /\ Bystander

SetNXCall(p, key, value, opts) == SetNXEnter(p, key, value, opts) /\ UNCHANGED nxret

SetNXGet(p) ==
    /\ ~panicked /\ pc[p] = "SetNXGet"
    /\ LET r == InnerGet(call[p].key)
           d == SetNXDecision(r)
       IN /\ Apply(r)
          /\ pc' = [pc EXCEPT ![p] = IF d = "set" THEN "SetNXSet" ELSE "SetNXRet"]
          /\ ret' = [ret EXCEPT ![p] =
                        IF d = "set" THEN NoRet
                        ELSE [b |-> FALSE, err |-> IF d = "error" THEN r.err ELSE Nil]]
    /\ UNCHANGED <<policy, maxEntries, seqVars, now, mutexW, mutexR, call, stored, nxret>>
    /\ Bystander

SetNXSet(p) ==
    /\ ~panicked /\ pc[p] = "SetNXSet"
    /\ LET c == call[p]
           r == InnerSet(c.key, newItem(c.value, c.opts))
       IN /\ Apply(r)
          /\ ret' = [ret EXCEPT ![p] = [b |-> TRUE, err |-> r.err]]
          /\ stored' = StoredAfter(r, c)
    /\ pc' = [pc EXCEPT ![p] = "SetNXRet"]
    /\ UNCHANGED <<policy, maxEntries, seqVars, now, mutexW, mutexR, call, nxret>>
    /\ Bystander

SetNXReturn(p) == Return(p, "SetNXRet") /\ UNCHANGED nxret

DeleteCall(p, key) ==
    /\ Idle(p)
    /\ DeleteAcquire(p)
    /\ pc' = [pc EXCEPT ![p] = "Delete"]
    /\ call' = [call EXCEPT ![p] = [op |-> "Delete", key |-> key, value |-> 0, opts |-> <<>>]]
    /\ UNCHANGED <<policyVars, seqVars, now, ret, stored, nxret>>
    /\ Bystander

DeleteBody(p) ==
    /\ ~panicked /\ pc[p] = "Delete"
    /\ LET r == InnerDelete(call[p].key)
       IN /\ Apply(r)
          /\ ret' = [ret EXCEPT ![p] = [err |-> DeleteOutcome(r), saw |-> Saw(call[p].key)]]
          /\ stored' = Forget(HeldAfter(r))
    /\ pc' = [pc EXCEPT ![p] = "DeleteRet"]
    /\ UNCHANGED <<policy, maxEntries, seqVars, now, mutexW, mutexR, call, nxret>>
    /\ Bystander

DeleteReturn(p) == Return(p, "DeleteRet") /\ UNCHANGED nxret

\* time passes
Tick ==
    /\ ~panicked /\ now < MaxTime
    /\ now' = now + 1
    /\ UNCHANGED <<policyVars, seqVars, bgVars, mutexW, mutexR, pc, call, ret, stored, nxret>>

Init ==
    /\ policy \in {"lru", "fifo", "simple"}
    /\ maxEntries \in IF policy = "simple" THEN {0} ELSE FacadeCaps
    /\ cache = EmptyMap
    /\ linkedDoublyList = <<>>
    /\ simpleCache = EmptyMap
    /\ panicked = FALSE
    /\ last = NoCall
    /\ inserted = <<>>
    /\ fresh = TRUE
    /\ InitFacadeIdle

Next ==
    \/ \E p \in Callers, k \in FacadeKeys : GetCall(p, k)
    \/ \E p \in Callers : GetBody(p)
    \/ \E p \in Callers : GetReturn(p)
    \/ \E p \in Callers, k \in FacadeKeys, v \in Values, o \in Opts : SetCall(p, k, v, o)
    \/ \E p \in Callers : SetBody(p)
    \/ \E p \in Callers : SetReturn(p)
    \/ \E p \in Callers, k \in FacadeKeys, v \in Values, o \in Opts : SetNXCall(p, k, v, o)
    \/ \E p \in Callers : SetNXGet(p)
    \/ \E p \in Callers : SetNXSet(p)
    \/ \E p \in Callers : SetNXReturn(p)
    \/ \E p \in Callers, k \in FacadeKeys : DeleteCall(p, k)
    \/ \E p \in Callers : DeleteBody(p)
    \/ \E p \in Callers : DeleteReturn(p)
    \/ Tick

Spec == Init /\ [][Next]_vars

(***************************************************************************)
(* SpecNX: every caller issues at most one SetNX, and nothing else runs.   *)
(***************************************************************************)
OnceSetNXCall(p, key, value, opts) ==
    /\ ~nxret[p].done
    /\ SetNXEnter(p, key, value, opts)
    /\ UNCHANGED nxret

OnceSetNXReturn(p) ==
    /\ Return(p, "SetNXRet")
    /\ nxret' = [nxret EXCEPT ![p] = [done |-> TRUE, key |-> call[p].key,
                                      value |-> call[p].value,
                                      b |-> ret[p].b, err |-> ret[p].err]]

NextNX ==
    \/ \E p \in Procs, k \in FacadeKeys, v \in Values, o \in Opts : OnceSetNXCall(p, k, v, o)
    \/ \E p \in Procs : SetNXGet(p)
    \/ \E p \in Procs : SetNXSet(p)
    \/ \E p \in Procs : OnceSetNXReturn(p)
    \/ Tick

SpecNX == Init /\ [][NextNX]_vars

(***************************************************************************)
(* SpecRound: one goroutine calling Set, Get and SetNX on the facade over  *)
(* each policy cache, at every capacity from 1 to MaxCap.                  *)
(***************************************************************************)
InitRound ==
    /\ policy \in {"lru", "fifo", "simple"}
    /\ maxEntries \in IF policy = "simple" THEN {0} ELSE 1..MaxCap
    /\ cache = EmptyMap
    /\ linkedDoublyList = <<>>
    /\ simpleCache = EmptyMap
    /\ panicked = FALSE
    /\ last = NoCall
    /\ inserted = <<>>
    /\ fresh = TRUE
    /\ InitFacadeIdle

NextRound ==
    \/ \E p \in Writers, k \in KeySet, v \in Values, o \in RoundOpts : SetCall(p, k, v, o)
    \/ \E p \in Writers : SetBody(p)
    \/ \E p \in Writers : SetReturn(p)
    \/ \E p \in Writers, k \in KeySet : GetCall(p, k)
    \/ \E p \in Writers : GetBody(p)
    \/ \E p \in Writers : GetReturn(p)
    \/ \E p \in Writers, k \in KeySet, v \in Values, o \in RoundOpts : SetNXCall(p, k, v, o)
    \/ \E p \in Writers : SetNXGet(p)
    \/ \E p \in Writers : SetNXSet(p)
    \/ \E p \in Writers : SetNXReturn(p)
    \/ Tick

SpecRound == InitRound /\ [][NextRound]_vars

(***************************************************************************)
(* SpecError: callers of SetNX and Get on a facade whose policy cache is   *)
(* errorCache, or simple.Cache for comparison.                             *)
(***************************************************************************)
InitError ==
    /\ policy \in {"error", "simple"}
    /\ maxEntries = 0
    /\ cache = EmptyMap
    /\ linkedDoublyList = <<>>
    /\ simpleCache = EmptyMap
    /\ panicked = FALSE
    /\ last = NoCall
    /\ inserted = <<>>
    /\ fresh = TRUE
    /\ InitFacadeIdle

NextError ==
    \/ \E p \in Callers, k \in FacadeKeys, v \in Values, o \in Opts : SetNXCall(p, k, v, o)
    \/ \E p \in Callers : SetNXGet(p)
    \/ \E p \in Callers : SetNXSet(p)
    \/ \E p \in Callers : SetNXReturn(p)
    \/ \E p \in Callers, k \in FacadeKeys : GetCall(p, k)
    \/ \E p \in Callers : GetBody(p)
    \/ \E p \in Callers : GetReturn(p)
    \/ Tick

SpecError == InitError /\ [][NextError]_vars

(***************************************************************************)
(* SpecSweep: Cache.DeleteExpired on its own goroutine, next to callers    *)
(* of Set, Delete and Keys.                                                *)
(***************************************************************************)
\* The orders in which ranging over a map with key set S can visit it
Orders(S) == {o \in [1..Cardinality(S) -> S] : \A x \in S : \E i \in DOMAIN o : o[i] = x}

\* The slices that Keys() of the policy cache can return
InnerKeys ==
    CASE policy = "lru"    -> {LruKeys}
      [] policy = "fifo"   -> {FifoKeys}
      [] policy = "simple" -> Orders(DOMAIN simpleCache)
      [] policy = "error"  -> {ErrorKeys}

AllIdle == \A p \in Procs : pc[p] = "idle"

SweepNeverDeletes(r) == FALSE

SweepAlwaysDeletes(r) == r.err = Nil

\* DeleteExpired deletes the key whose re-fetch gave r
SweepShouldDelete(r) == r.err = Nil /\ Expired(r.v)

\* DeleteExpired leaves its loop before the examination counted i
SweepStops(i) == i > SweepLimit

\* Cache.Keys, called by p without the lock: the read of the policy cache begins
KeysCall(p) ==
    /\ Idle(p)
    /\ pc' = [pc EXCEPT ![p] = "Keys"]
    /\ call' = [call EXCEPT ![p] = [op |-> "Keys", key |-> 0, value |-> 0, opts |-> <<>>]]
    /\ UNCHANGED <<policyVars, seqVars, now, mutexW, mutexR, ret, stored, nxret>>
    /\ Bystander

\* The read ends and Keys returns one of InnerKeys to its caller.  A read that
\* a write has overlapped is a data race: it returns some slice of keys, or,
\* ranging over the map of simple.Cache, the runtime may stop the program
\* (concurrent map iteration and map write).
KeysReturn(p) ==
    /\ ~panicked /\ pc[p] = "Keys"
    /\ \/ /\ InnerKeys # {}
          /\ pc' = [pc EXCEPT ![p] = "idle"]
          /\ call' = [call EXCEPT ![p] = NoArgs]
          /\ torn' = torn \ {p}
          /\ UNCHANGED panicked
       \/ /\ p \in torn /\ policy = "simple"
          /\ panicked' = TRUE
          /\ UNCHANGED <<pc, call, torn, jVars, cVars>>
    /\ SweepBystander
    /\ UNCHANGED <<policy, maxEntries, cache, linkedDoublyList, simpleCache,
                   seqVars, now, mutexW, mutexR, ret, stored, nxret>>

\* DeleteExpired: c.mutex.RLock()
SweepRLock ==
    /\ ~panicked /\ sweep.pc = "idle"
    /\ RLock(Sweeper)
    /\ sweep' = [SweepIdle EXCEPT !.pc = "keys", !.quiet = AllIdle]
    /\ UNCHANGED <<policyVars, seqVars, now, pc, call, ret, stored, nxret, torn, jVars, cVars>>

\* keys := c.Keys()
SweepKeysRead ==
    /\ ~panicked /\ sweep.pc = "keys"
    /\ \E ks \in InnerKeys :
          sweep' = [sweep EXCEPT !.pc = "runlock", !.keys = ks,
                        !.allExpired = \A k \in Held : Expired(ItemOf(k))]
    /\ UNCHANGED <<policyVars, seqVars, facadeVars, torn, jVars, cVars>>

\* c.mutex.RUnlock(); i := 0
SweepRUnlock ==
    /\ ~panicked /\ sweep.pc = "runlock"
    /\ RUnlock(Sweeper)
    /\ sweep' = [sweep EXCEPT !.pc = "loop", !.i = 0, !.pos = 1]
    /\ UNCHANGED <<policyVars, seqVars, now, pc, call, ret, stored, nxret, torn, jVars, cVars>>

\* the range has a next key and i is within the limit: c.mutex.Lock()
SweepLock ==
    /\ ~panicked /\ sweep.pc = "loop"
    /\ sweep.pos <= Len(sweep.keys) /\ ~SweepStops(sweep.i)
    /\ Lock(Sweeper)
    /\ sweep' = [sweep EXCEPT !.pc = "examine"]
    /\ UNCHANGED <<policyVars, seqVars, now, pc, call, ret, stored, nxret, torn, jVars, cVars>>

\* item, err := c.cache.Get(ctx, key); if err == nil && item.Expired() then
\* c.cache.Delete(ctx, key).  Delete removes the element that Get may have
\* moved, so the cache after both is the cache after Delete alone.
SweepExamine ==
    /\ ~panicked /\ sweep.pc = "examine"
    /\ LET key == sweep.keys[sweep.pos]
           g   == InnerGet(key)
           r   == IF SweepShouldDelete(g) THEN InnerDelete(key) ELSE g
       IN /\ Apply(r)
          /\ stored' = Forget(HeldAfter(r))
          /\ sweep' = [sweep EXCEPT !.pc = "unlock",
                           !.examined = Append(sweep.examined, key),
                           !.found = Append(sweep.found, Saw(key))]
          /\ torn' = TornAfter
    /\ UNCHANGED <<policy, maxEntries, seqVars, now, mutexW, mutexR, pc, call, ret, nxret,
                   jVars, cVars>>

\* c.mutex.Unlock(); i++
SweepUnlock ==
    /\ ~panicked /\ sweep.pc = "unlock"
    /\ Unlock(Sweeper)
    /\ sweep' = [sweep EXCEPT !.pc = "loop", !.i = sweep.i + 1, !.pos = sweep.pos + 1]
    /\ UNCHANGED <<policyVars, seqVars, now, pc, call, ret, stored, nxret, torn, jVars, cVars>>

\* the range is over, or i > 10000: return
SweepFinished ==
    sweep.pc = "loop" /\ (sweep.pos > Len(sweep.keys) \/ SweepStops(sweep.i))

SweepReturn ==
    /\ ~panicked /\ SweepFinished
    /\ sweep' = SweepIdle
    /\ UNCHANGED <<policyVars, seqVars, facadeVars, torn, jVars, cVars>>

\* NewSimpleCache: the facade over simple.Cache, which has no capacity
InitSweep ==
    /\ policy = "simple"
    /\ maxEntries = 0
    /\ cache = EmptyMap
    /\ linkedDoublyList = <<>>
    /\ simpleCache = EmptyMap
    /\ panicked = FALSE
    /\ last = NoCall
    /\ inserted = <<>>
    /\ fresh = TRUE
    /\ InitFacadeIdle

NextSweep ==
    \/ \E p \in Writers, k \in SweepKeys, v \in SweepValues, o \in SweepOpts : SetCall(p, k, v, o)
    \/ \E p \in Writers : SetBody(p)
    \/ \E p \in Writers : SetReturn(p)
    \/ \E p \in Writers, k \in SweepKeys : DeleteCall(p, k)
    \/ \E p \in Writers : DeleteBody(p)
    \/ \E p \in Writers : DeleteReturn(p)
    \/ \E p \in Readers : KeysCall(p)
    \/ \E p \in Readers : KeysReturn(p)
    \/ SweepRLock
    \/ SweepKeysRead
    \/ SweepRUnlock
    \/ SweepLock
    \/ SweepExamine
    \/ SweepUnlock
    \/ SweepReturn
    \/ Tick

SpecSweep == InitSweep /\ [][NextSweep]_vars

(***************************************************************************)
(* SpecSweepLru: Cache.DeleteExpired on a facade over lru.Cache of         *)
(* capacity MidCap, which holds a snapshot longer than the sweep examines, *)
(* next to one caller of Set.                                              *)
(***************************************************************************)
InitSweepLru ==
    /\ policy = "lru"
    /\ maxEntries = MidCap
    /\ cache = EmptyMap
    /\ linkedDoublyList = <<>>
    /\ simpleCache = EmptyMap
    /\ panicked = FALSE
    /\ last = NoCall
    /\ inserted = <<>>
    /\ fresh = TRUE
    /\ InitFacadeIdle

NextSweepLru ==
    \/ \E p \in Writers, k \in SweepKeys, v \in SweepValues, o \in SweepOpts : SetCall(p, k, v, o)
    \/ \E p \in Writers : SetBody(p)
    \/ \E p \in Writers : SetReturn(p)
    \/ SweepRLock
    \/ SweepKeysRead
    \/ SweepRUnlock
    \/ SweepLock
    \/ SweepExamine
    \/ SweepUnlock
    \/ SweepReturn
    \/ Tick

SpecSweepLru == InitSweepLru /\ [][NextSweepLru]_vars

(***************************************************************************)
(* SpecLruShared: two goroutines calling Get, Set, SetNX and Delete on a   *)
(* facade over lru.Cache of capacity MaxCap, and DeleteExpired running.    *)
(***************************************************************************)
InitLruShared ==
    /\ policy = "lru"
    /\ maxEntries = MaxCap
    /\ cache = EmptyMap
    /\ linkedDoublyList = <<>>
    /\ simpleCache = EmptyMap
    /\ panicked = FALSE
    /\ last = NoCall
    /\ inserted = <<>>
    /\ fresh = TRUE
    /\ InitFacadeIdle

NextLruShared ==
    \/ \E p \in Callers, k \in FacadeKeys : GetCall(p, k)
    \/ \E p \in Callers : GetBody(p)
    \/ \E p \in Callers : GetReturn(p)
    \/ \E p \in Callers, k \in FacadeKeys, v \in SweepValues, o \in RoundOpts : SetCall(p, k, v, o)
    \/ \E p \in Callers : SetBody(p)
    \/ \E p \in Callers : SetReturn(p)
    \/ \E p \in Callers, k \in FacadeKeys, v \in SweepValues, o \in RoundOpts : SetNXCall(p, k, v, o)
    \/ \E p \in Callers : SetNXGet(p)
    \/ \E p \in Callers : SetNXSet(p)
    \/ \E p \in Callers : SetNXReturn(p)
    \/ \E p \in Callers, k \in FacadeKeys : DeleteCall(p, k)
    \/ \E p \in Callers : DeleteBody(p)
    \/ \E p \in Callers : DeleteReturn(p)
    \/ SweepRLock
    \/ SweepKeysRead
    \/ SweepRUnlock
    \/ SweepLock
    \/ SweepExamine
    \/ SweepUnlock
    \/ SweepReturn
    \/ Tick

SpecLruShared == InitLruShared /\ [][NextLruShared]_vars

(***************************************************************************)
(* SpecJanitor: janitor.run's goroutine, the ticker, the context's cancel  *)
(* function and callers of janitor.stop.  cleanup is any function that     *)
(* returns.                                                                *)
(***************************************************************************)
cacheSide == <<policyVars, seqVars, facadeVars, sweep, torn>>

UpTo(n, max) == IF n < max THEN n + 1 ELSE n

OnceNever(o) == FALSE

OnceAlways(o) == TRUE

\* sync.Once.Do, holding its mutex: f runs when done is still 0
OnceDoes(o) == ~o.done

TickBranchAsync == "select"

\* case <-ticker.C: cleanup(j.ctx) is a call, the goroutine is inside it
TickBranch == "cleanup"

FinalLoops == "select"

\* case <-j.done: after cleanup(j.ctx) comes return
FinalNext == "exited"

JanitorRuns == ~janitor.panic

\* the runtime puts a tick into ticker.C (capacity 1) unless one waits there
TickerFire ==
    /\ JanitorRuns /\ janitor.pc # "exited" /\ ~janitor.tick
    /\ janitor' = [janitor EXCEPT !.tick = TRUE]
    /\ UNCHANGED <<cacheSide, once, stopPc, cVars>>

\* cancelFunc()
Cancel ==
    /\ JanitorRuns /\ ~janitor.ctxDone
    /\ janitor' = [janitor EXCEPT !.ctxDone = TRUE]
    /\ UNCHANGED <<cacheSide, once, stopPc, cVars>>

\* case <-ticker.C: cleanup(j.ctx) starts
JanitorTick ==
    /\ JanitorRuns /\ janitor.pc = "select" /\ janitor.tick
    /\ janitor' = [janitor EXCEPT !.pc = TickBranch, !.tick = FALSE,
                       !.num = UpTo(janitor.num, MaxRuns),
                       !.running = janitor.running + 1]
    /\ UNCHANGED <<cacheSide, once, stopPc, cVars>>

\* that cleanup call returns, the loop selects again
JanitorCleanupReturn ==
    /\ JanitorRuns /\ janitor.pc = "cleanup"
    /\ janitor' = [janitor EXCEPT !.pc = "select", !.running = janitor.running - 1]
    /\ UNCHANGED <<cacheSide, once, stopPc, cVars>>

\* case <-j.ctx.Done(): j.stop() is called
JanitorCtx ==
    /\ JanitorRuns /\ janitor.pc = "select" /\ janitor.ctxDone
    /\ janitor' = [janitor EXCEPT !.pc = "stop"]
    /\ stopPc' = [stopPc EXCEPT ![Task] = "call"]
    /\ UNCHANGED <<cacheSide, once, cVars>>

\* case <-j.done: the final cleanup(j.ctx) starts
JanitorDone ==
    /\ JanitorRuns /\ janitor.pc = "select" /\ janitor.done = "closed"
    /\ janitor' = [janitor EXCEPT !.pc = "final",
                       !.num = UpTo(janitor.num, MaxRuns),
                       !.running = janitor.running + 1]
    /\ UNCHANGED <<cacheSide, once, stopPc, cVars>>

\* the final cleanup returns; return, and the deferred ticker.Stop()
JanitorFinalReturn ==
    /\ JanitorRuns /\ janitor.pc = "final"
    /\ janitor' = [janitor EXCEPT !.pc = FinalNext, !.running = janitor.running - 1]
    /\ UNCHANGED <<cacheSide, once, stopPc, cVars>>

\* a goroutine other than the janitor's calls j.stop()
StopCall(c) ==
    /\ JanitorRuns /\ stopPc[c] = "idle"
    /\ stopPc' = [stopPc EXCEPT ![c] = "call"]
    /\ UNCHANGED <<cacheSide, janitor, once, cVars>>

\* once.Do: done is set, return; else go on to lock the mutex of once
StopCheck(c) ==
    /\ JanitorRuns /\ stopPc[c] = "call"
    /\ stopPc' = [stopPc EXCEPT ![c] = IF once.done THEN "ret" ELSE "lock"]
    /\ UNCHANGED <<cacheSide, janitor, once, cVars>>

StopLock(c) ==
    /\ JanitorRuns /\ stopPc[c] = "lock" /\ once.m = None
    /\ once' = [once EXCEPT !.m = c]
    /\ stopPc' = [stopPc EXCEPT ![c] = "locked"]
    /\ UNCHANGED <<cacheSide, janitor, cVars>>

\* under the mutex: if done is still 0, close(j.done) and set done; unlock.
\* Closing a closed channel panics.
StopDo(c) ==
    /\ JanitorRuns /\ stopPc[c] = "locked"
    /\ IF OnceDoes(once)
       THEN /\ janitor' = [janitor EXCEPT !.done = "closed",
                               !.closes = janitor.closes + 1,
                               !.closer = IF janitor.done = "open" THEN c ELSE janitor.closer,
                               !.panic = (janitor.done = "closed")]
            /\ once' = [done |-> TRUE, m |-> None]
       ELSE /\ once' = [once EXCEPT !.m = None]
            /\ UNCHANGED janitor
    /\ stopPc' = [stopPc EXCEPT ![c] = "ret"]
    /\ UNCHANGED <<cacheSide, cVars>>

\* j.stop() returns; in the janitor's goroutine the loop selects again
StopReturn(c) ==
    /\ JanitorRuns /\ stopPc[c] = "ret"
    /\ stopPc' = [stopPc EXCEPT ![c] = "idle"]
    /\ janitor' = [janitor EXCEPT !.pc = IF c = Task THEN "select" ELSE janitor.pc,
                       !.stops = UpTo(janitor.stops, MaxStops)]
    /\ UNCHANGED <<cacheSide, once, cVars>>

NextJanitor ==
    \/ TickerFire
    \/ Cancel
    \/ JanitorTick
    \/ JanitorCleanupReturn
    \/ JanitorCtx
    \/ JanitorDone
    \/ JanitorFinalReturn
    \/ \E c \in Stoppers : StopCall(c)
    \/ \E c \in StopCallers : StopCheck(c)
    \/ \E c \in StopCallers : StopLock(c)
    \/ \E c \in StopCallers : StopDo(c)
    \/ \E c \in StopCallers : StopReturn(c)

SpecJanitor == InitSweep /\ [][NextJanitor]_vars

\* Every cleanup call returns; a goroutine that can run does; and select,
\* which picks uniformly among the ready cases, does not pass over a case that
\* is ready again and again.
FairJanitor ==
    /\ WF_vars(JanitorCleanupReturn)
    /\ WF_vars(JanitorFinalReturn)
    /\ SF_vars(JanitorCtx)
    /\ SF_vars(JanitorDone)
    /\ \A c \in StopCallers :
          /\ WF_vars(StopCheck(c))
          /\ SF_vars(StopLock(c))
          /\ WF_vars(StopDo(c))
          /\ WF_vars(StopReturn(c))

SpecJanitorLive == InitSweep /\ [][NextJanitor]_vars /\ FairJanitor

(***************************************************************************)
(* SpecClose: the facade of cache.go.  cleanup starts a goroutine that     *)
(* sweeps on every tick until it receives from c.close; Close sends on     *)
(* c.close, which has no buffer, inside c.once.Do.                         *)
(***************************************************************************)
janitorSide == <<cacheSide, jVars>>

CloseOnceNever(o) == FALSE

\* sync.Once.Do: done is already set
CloseOnceDone(o) == o.done

\* the runtime puts a tick into ticker.C unless one waits there
CleanerTickerFire ==
    /\ cleaner.pc # "exited" /\ ~cleaner.tick
    /\ cleaner' = [cleaner EXCEPT !.tick = TRUE]
    /\ UNCHANGED <<janitorSide, closeOnce, closePc>>

\* case <-ticker.C: c.DeleteExpired(context.Background()) starts
CleanerTick ==
    /\ cleaner.pc = "select" /\ cleaner.tick
    /\ cleaner' = [cleaner EXCEPT !.pc = "sweep", !.tick = FALSE,
                       !.sweeps = UpTo(cleaner.sweeps, MaxRuns)]
    /\ UNCHANGED <<janitorSide, closeOnce, closePc>>

\* DeleteExpired returns, the loop selects again
CleanerSweepReturn ==
    /\ cleaner.pc = "sweep"
    /\ cleaner' = [cleaner EXCEPT !.pc = "select"]
    /\ UNCHANGED <<janitorSide, closeOnce, closePc>>

\* case <-c.close: the send of the Close call c and this receive meet; return
CleanerReceive(c) ==
    /\ cleaner.pc = "select" /\ closePc[c] = "send"
    /\ cleaner' = [cleaner EXCEPT !.pc = "exited"]
    /\ closePc' = [closePc EXCEPT ![c] = "sent"]
    /\ UNCHANGED <<janitorSide, closeOnce>>

\* Cache.Close is called
CloseCall(c) ==
    /\ closePc[c] = "idle"
    /\ closePc' = [closePc EXCEPT ![c] = "call"]
    /\ UNCHANGED <<janitorSide, cleaner, closeOnce>>

\* once.Do: done is set, return; else go on to lock the mutex of once
CloseCheck(c) ==
    /\ closePc[c] = "call"
    /\ closePc' = [closePc EXCEPT ![c] = IF CloseOnceDone(closeOnce) THEN "ret" ELSE "lock"]
    /\ UNCHANGED <<janitorSide, cleaner, closeOnce>>

CloseLock(c) ==
    /\ closePc[c] = "lock" /\ closeOnce.m = None
    /\ closeOnce' = [closeOnce EXCEPT !.m = c]
    /\ closePc' = [closePc EXCEPT ![c] = "locked"]
    /\ UNCHANGED <<janitorSide, cleaner>>

\* under the mutex: if done is still 0, run f, which sends on c.close and
\* waits for the receiver; else unlock and return
CloseDo(c) ==
    /\ closePc[c] = "locked"
    /\ IF CloseOnceDone(closeOnce)
       THEN /\ closeOnce' = [closeOnce EXCEPT !.m = None]
            /\ closePc' = [closePc EXCEPT ![c] = "unlocked"]
       ELSE /\ closePc' = [closePc EXCEPT ![c] = "send"]
            /\ UNCHANGED closeOnce
    /\ UNCHANGED <<janitorSide, cleaner>>

\* the send has been received: f returns, done is set, the mutex unlocked
CloseSent(c) ==
    /\ closePc[c] = "sent"
    /\ closeOnce' = [done |-> TRUE, m |-> None, by |-> c]
    /\ closePc' = [closePc EXCEPT ![c] = "unlocked"]
    /\ UNCHANGED <<janitorSide, cleaner>>

\* Close returns
CloseReturn(c) ==
    /\ closePc[c] \in {"ret", "unlocked"}
    /\ closePc' = [closePc EXCEPT ![c] = "idle"]
    /\ UNCHANGED <<janitorSide, cleaner, closeOnce>>

NextClose ==
    \/ CleanerTickerFire
    \/ CleanerTick
    \/ CleanerSweepReturn
    \/ \E c \in Closers : CleanerReceive(c)
    \/ \E c \in Closers : CloseCall(c)
    \/ \E c \in Closers : CloseCheck(c)
    \/ \E c \in Closers : CloseLock(c)
    \/ \E c \in Closers : CloseDo(c)
    \/ \E c \in Closers : CloseSent(c)
    \/ \E c \in Closers : CloseReturn(c)

SpecClose == InitSweep /\ [][NextClose]_vars

(***************************************************************************)
(* Properties of the facade (Spec, SpecNX).                                *)
(***************************************************************************)
\* What Cache.Get would return for the key of p's call, were it to run now
GetOfCall(p) == GetOutcome(InnerGet(call[p].key))

ItemOfCall(p) == ItemOf(call[p].key)

HeldCall(p) == call[p].key \in Held

\* The result of p's SetNX, once its critical section has produced it
NXDone(p) == nxret[p].done \/ pc[p] = "SetNXRet"

NXResult(p) ==
    IF nxret[p].done THEN nxret[p]
    ELSE [done |-> FALSE, key |-> call[p].key, value |-> call[p].value,
          b |-> ret[p].b, err |-> ret[p].err]

OnlyKey(k) ==
    \A p \in Procs : /\ pc[p] # "idle" => call[p].key = k
                     /\ nxret[p].done => nxret[p].key = k

\* C1: whatever the interleaving of concurrent SetNX calls on one key that the
\* cache does not hold, exactly one of them returns inserted = true, the
\* others return (false, nil), and the value stored is the winner's.
C1_SetNXAtomic ==
    \A k \in FacadeKeys :
        LET done    == {p \in Procs : NXDone(p)}
            winners == {p \in done : NXResult(p).b}
        IN (OnlyKey(k) /\ done # {})
            => /\ Cardinality(winners) = 1
               /\ \A p \in done : NXResult(p).err = Nil
               /\ k \in Held
               /\ \A p \in winners : ItemOf(k).value = NXResult(p).value

C1_Witness ==
    /\ \A p \in Procs : nxret[p].done /\ nxret[p].key = 1
    /\ \E p, q \in Procs : /\ nxret[p].b /\ ~nxret[q].b
                           /\ nxret[p].value # nxret[q].value

\* C2: SetNX(k, v2) on a key that is held and not expired returns (false, nil)
\* and leaves the item under k as it was, so that a Get(k) that follows
\* returns the earlier value; SetNX on a key that is not held goes on to store
\* it, returns (true, nil), and a Get(k) that follows returns the new value.
C2_SetNXPresentAbsent ==
    [][\A p \in Callers :
        /\ (/\ pc[p] = "SetNXGet" /\ pc'[p] # "SetNXGet"
            /\ HeldCall(p) /\ ~Expired(ItemOfCall(p)))
           => /\ pc'[p] = "SetNXRet"
              /\ ret'[p] = [b |-> FALSE, err |-> Nil]
              /\ HeldCall(p)'
              /\ ItemOfCall(p)' = ItemOfCall(p)
              /\ GetOfCall(p)' = [v |-> ItemOfCall(p).value, err |-> Nil]
        /\ (pc[p] = "SetNXGet" /\ pc'[p] # "SetNXGet" /\ ~HeldCall(p))
           => pc'[p] = "SetNXSet" /\ ~HeldCall(p)'
        /\ (pc[p] = "SetNXSet" /\ pc'[p] # "SetNXSet" /\ ~HeldCall(p))
           => /\ ret'[p] = [b |-> TRUE, err |-> Nil]
              /\ GetOfCall(p)' = [v |-> call[p].value, err |-> Nil]]_vars

C2_Witness ==
    \E p \in Callers :
        /\ pc[p] = "SetNXRet" /\ ret[p] = [b |-> FALSE, err |-> Nil]
        /\ HeldCall(p) /\ ~Expired(ItemOfCall(p))
        /\ ItemOfCall(p).value # call[p].value
        /\ GetOfCall(p).v = ItemOfCall(p).value

\* C3: SetNX(k, v) on a key whose item has expired and is still held goes on to
\* store v and returns (true, nil), so that a Get(k) that follows returns v.
C3_SetNXExpired ==
    [][\A p \in Callers :
        (/\ pc[p] = "SetNXGet" /\ pc'[p] # "SetNXGet"
         /\ HeldCall(p) /\ Expired(ItemOfCall(p)))
        => pc'[p] = "SetNXSet"]_vars

\* C4: after Set(k, v, WithExpiration(d)) at time t, nothing else touching k,
\* Get(k) returns v at every time up to t+d and ErrNoKey at every later time;
\* and once a Get(k) has found the item expired, no Get(k) succeeds until k is
\* stored again.
C4_ExpiryOnRead ==
    /\ [][\A p \in Callers :
        (pc[p] = "Get" /\ pc'[p] = "GetRet")
        => LET k == call[p].key
               s == stored[k]
           IN /\ (s # NoSet /\ s.opts # <<>>)
                 => ret'[p] = IF now <= s.t + s.opts[Len(s.opts)]
                              THEN [v |-> s.value, err |-> Nil]
                              ELSE [v |-> ZeroV, err |-> ErrNoKey]
              /\ (k \in Held /\ Expired(ItemOf(k)))
                 => ret'[p] = [v |-> ZeroV, err |-> ErrNoKey]]_vars
    /\ [][\A k \in FacadeKeys :
            (/\ k \in Held /\ Expired(ItemOf(k))
             /\ k \in Held' /\ stored'[k] = stored[k])
            => Expired(ItemOf(k))']_vars

C4_Witness ==
    \E p \in Callers :
        LET s == stored[call[p].key]
        IN /\ pc[p] = "GetRet" /\ s # NoSet /\ s.opts # <<>>
           /\ now > s.t + s.opts[1]
           /\ ret[p].err = ErrNoKey
           /\ call[p].key \in Held

\* C5 as stated: Delete(k) on a key that is held but whose item has expired
\* fails with ErrNoKey.
C5_DeleteExpiredFails ==
    [][\A p \in Callers :
        (/\ pc[p] = "Delete" /\ pc'[p] = "DeleteRet"
         /\ HeldCall(p) /\ Expired(ItemOfCall(p)))
        => ret'[p].err = ErrNoKey]_vars

\* C5 amended: Delete(k) on a key that is held but whose item has expired does
\* what Delete does on any held key: it returns nil, removes k and leaves the
\* other keys held.
C5_DeleteExpiredDelegates ==
    [][\A p \in Callers :
        (/\ pc[p] = "Delete" /\ pc'[p] = "DeleteRet"
         /\ HeldCall(p) /\ Expired(ItemOfCall(p)))
        => /\ ret'[p].err = Nil
           /\ Held' = Held \ {call[p].key}]_vars

C5_Witness ==
    \E p \in Callers :
        /\ pc[p] = "DeleteRet" /\ ret[p].err = Nil /\ ret[p].saw = "expired"
        /\ call[p].key \notin Held

\* C20 as stated: on simple.Cache, and on the facade over it, Delete(k) of a
\* key that is not held fails with ErrNoKey.
C20_SimpleDeleteAbsentFails ==
    /\ [](policy = "simple"
            => \A k \in FacadeKeys \ DOMAIN simpleCache :
                  SimpleDelete(k).err = ErrNoKey)
    /\ [][\A p \in Callers :
            (/\ policy = "simple"
             /\ pc[p] = "Delete" /\ pc'[p] = "DeleteRet" /\ ~HeldCall(p))
            => ret'[p].err = ErrNoKey]_vars

\* C20 amended: on simple.Cache, and on the facade over it, Delete(k) of a key
\* that is not held returns nil and leaves the cache as it was.
C20_SimpleDeleteAbsentNil ==
    /\ [](policy = "simple"
            => \A k \in FacadeKeys \ DOMAIN simpleCache :
                  /\ SimpleDelete(k).err = Nil
                  /\ SimpleDelete(k).simple = simpleCache)
    /\ [][\A p \in Callers :
            (/\ policy = "simple"
             /\ pc[p] = "Delete" /\ pc'[p] = "DeleteRet" /\ ~HeldCall(p))
            => /\ ret'[p].err = Nil
               /\ simpleCache' = simpleCache]_vars

C20_Witness ==
    \E p \in Callers :
        /\ policy = "simple" /\ simpleCache # EmptyMap
        /\ pc[p] = "DeleteRet" /\ ret[p].saw = "absent" /\ ret[p].err = Nil

\* C21: on simple.Cache, and on the facade over it, Delete(k) returns nil
\* whether k is held or not; it leaves the cache holding the keys it held
\* other than k, each with the value it had, so that nothing changes when k
\* was not held and exactly k goes when it was.
C21_SimpleDeleteNil ==
    /\ [](policy = "simple"
            => \A k \in FacadeKeys :
                  LET r == SimpleDelete(k)
                  IN /\ r.err = Nil /\ ~r.panic
                     /\ DOMAIN r.simple = (DOMAIN simpleCache) \ {k}
                     /\ \A j \in DOMAIN r.simple : r.simple[j] = simpleCache[j]
                     /\ k \notin DOMAIN simpleCache => r.simple = simpleCache)
    /\ [][\A p \in Callers :
            (policy = "simple" /\ pc[p] = "Delete" /\ pc'[p] = "DeleteRet")
            => /\ ret'[p].err = Nil
               /\ Held' = Held \ {call[p].key}
               /\ \A j \in Held' : ItemOf(j)' = ItemOf(j)
               /\ ~HeldCall(p) => simpleCache' = simpleCache]_vars

C21_Witness ==
    \E p \in Callers :
        /\ policy = "simple"
        /\ pc[p] = "DeleteRet" /\ ret[p].saw = "live" /\ ret[p].err = Nil
        /\ call[p].key \notin Held /\ Held # {}

\* C22: when the Get of the policy cache fails with an error other than
\* ErrNoKey, SetNX returns (false, that error), never reaches its call of the
\* policy cache's Set, and leaves the policy cache as it was.
C22_SetNXPropagatesError ==
    /\ [][\A p \in Callers :
            (/\ pc[p] = "SetNXGet" /\ pc'[p] # "SetNXGet"
             /\ InnerGet(call[p].key).err \notin {Nil, ErrNoKey})
            => /\ pc'[p] = "SetNXRet"
               /\ ret'[p] = [b |-> FALSE, err |-> InnerGet(call[p].key).err]
               /\ <<cache, linkedDoublyList, simpleCache>>'
                     = <<cache, linkedDoublyList, simpleCache>>
               /\ stored' = stored]_vars
    /\ [](\A p \in Callers :
            (pc[p] = "SetNXSet" \/ (pc[p] = "SetNXRet" /\ ret[p].b))
            => InnerGet(call[p].key).err \in {Nil, ErrNoKey})

C22_Witness ==
    \E p \in Callers :
        /\ policy = "error"
        /\ pc[p] = "SetNXRet" /\ ret[p] = [b |-> FALSE, err |-> ErrGet]

\* C23: round trip.  On the facade over simple, lru and fifo with a capacity
\* of at least 1, right after Set(k, v) the policy cache holds k with an item
\* of value v, whether k was held before or not and whether the cache was
\* full or not; a Get(k) that runs before the clock has moved past the item's
\* expiration, and before k is set again or removed, returns (v, nil).
C23_RoundTrip ==
    /\ [](\A p \in Writers :
            pc[p] = "SetRet"
            => LET g == InnerGet(call[p].key)
               IN /\ ret[p].err = Nil
                  /\ g.err = Nil /\ g.v.value = call[p].value
                  /\ (call[p].opts = <<>> \/ stored[call[p].key].t = now)
                        => GetOfCall(p) = [v |-> call[p].value, err |-> Nil])
    /\ [][\A p \in Writers :
            LET s == stored[call[p].key]
            IN (/\ pc[p] = "Get" /\ pc'[p] = "GetRet"
                /\ s # NoSet /\ (s.opts = <<>> \/ s.t = now))
               => ret'[p] = [v |-> s.value, err |-> Nil]]_vars

C23_Witness ==
    \E p \in Writers :
        LET s == stored[call[p].key]
        IN /\ policy = "fifo" /\ maxEntries = MaxCap
           /\ Len(linkedDoublyList) = maxEntries
           /\ pc[p] = "GetRet" /\ ret[p] = [v |-> 2, err |-> Nil]
           /\ s.value = 2 /\ s.opts = <<0>> /\ s.t = now /\ now > 1
           /\ \E j \in Held : Expired(ItemOf(j))

\* C25: a SetNX that returns (false, nil) because the key is held changes
\* nothing in the policy cache, whichever it is: the keys held, their items
\* (value and expiration) and the order that Keys() returns are the same
\* after the call as before it.
C25_SetNXPresentFrame ==
    [][\A p \in Writers :
        (/\ pc[p] = "SetNXGet" /\ pc'[p] = "SetNXRet"
         /\ ret'[p] = [b |-> FALSE, err |-> Nil])
        => /\ Held' = Held
           /\ \A k \in Held : ItemOf(k)' = ItemOf(k)
           /\ InnerKeys' = InnerKeys]_vars

\* C26: a Get(k) that finds the item of k expired returns ErrNoKey and
\* leaves the entry where it is: the policy cache holds the same keys with the
\* same items, k among them and in Keys(), and as many entries count toward
\* the capacity as before.  An entry leaves the policy cache only when a call
\* removes it; here, with no Delete and no sweep, when the Set of another
\* key evicts it.
C26_LazyExpirationKeeps ==
    /\ [][\A p \in Writers :
            (/\ pc[p] = "Get" /\ pc'[p] = "GetRet"
             /\ HeldCall(p) /\ Expired(ItemOfCall(p)))
            => /\ ret'[p] = [v |-> ZeroV, err |-> ErrNoKey]
               /\ Held' = Held
               /\ \A k \in Held : ItemOf(k)' = ItemOf(k)
               /\ \A ks \in InnerKeys' : \E i \in DOMAIN ks : ks[i] = call[p].key
               /\ Len(linkedDoublyList') = Len(linkedDoublyList)]_vars
    /\ [][\A k \in KeySet :
            (k \in Held /\ k \notin Held')
            => \E p \in Writers :
                  /\ pc[p] \in {"Set", "SetNXSet"} /\ pc'[p] # pc[p]
                  /\ call[p].key # k]_vars

C26_Witness ==
    \E p \in Writers :
        /\ policy \in {"lru", "fifo"} /\ maxEntries = MaxCap
        /\ Len(linkedDoublyList) = maxEntries
        /\ pc[p] = "GetRet" /\ ret[p].err = ErrNoKey
        /\ HeldCall(p) /\ Expired(ItemOfCall(p))

\* C29: a Get that fails with ErrNoKey, the key not held or its item
\* expired, changes nothing in the policy cache, whichever it is: the map,
\* the list and with it the order of Keys() are what they were.
C29_FailedGetFrame ==
    [][\A p \in Writers :
        (pc[p] = "Get" /\ pc'[p] = "GetRet" /\ ret'[p].err = ErrNoKey)
        => /\ cache' = cache
           /\ linkedDoublyList' = linkedDoublyList
           /\ simpleCache' = simpleCache]_vars

\* The key that the order of the policy cache designates for eviction: the
\* first of Keys(), which lists the least recently used, or the oldest, first
Designated == IF policy = "lru" THEN LruKeys[1] ELSE FifoKeys[1]

\* C33: the Set of a key that a full lru or fifo policy cache does not hold
\* evicts the key its order designates (the least recently used, the
\* oldest) and no other, whether that key's item or any other item has
\* expired or not; afterwards the cache is full again, expired items counted.
C33_EvictionIgnoresExpiry ==
    [][\A p \in Writers :
        (/\ policy \in {"lru", "fifo"}
         /\ pc[p] = "Set" /\ pc'[p] = "SetRet"
         /\ ~HeldCall(p) /\ Len(linkedDoublyList) >= maxEntries)
        => /\ Held' = (Held \ {Designated}) \cup {call[p].key}
           /\ ret'[p].out = {<<Designated, Saw(Designated)>>}
           /\ Cardinality(Held') = maxEntries
           /\ \A k \in Held \ {Designated} : ItemOf(k)' = ItemOf(k)]_vars

C33_Witness ==
    \E p \in Writers :
        /\ policy \in {"lru", "fifo"} /\ maxEntries = MaxCap
        /\ pc[p] = "SetRet" /\ \E m \in KeySet : ret[p].out = {<<m, "live">>}
        /\ \E j \in Held \ {call[p].key} : Expired(ItemOf(j))

(***************************************************************************)
(* Properties of the sweep and of the locking (SpecSweep).                 *)
(***************************************************************************)
\* C11: when DeleteExpired snapshots a cache of at most 10000 keys (here
\* SweepLimit), all of them expired, and no caller takes a step while it runs,
\* then at its return it has examined and removed every key: the cache holds
\* nothing and Keys() is empty.
C11_SweepCompleteness ==
    (/\ SweepFinished /\ sweep.quiet /\ sweep.allExpired
     /\ Len(sweep.keys) <= SweepLimit)
        => /\ sweep.examined = sweep.keys
           /\ Held = {}
           /\ InnerKeys = {<<>>}

C11_Witness ==
    /\ SweepFinished /\ sweep.quiet /\ sweep.allExpired
    /\ Len(sweep.keys) = SweepLimit /\ SweepLimit >= 1
    /\ sweep.examined = sweep.keys
    /\ Held = {}

\* C12: one run of DeleteExpired examines at most 10000 keys (here SweepLimit);
\* on a snapshot longer than that it returns after the examination number
\* SweepLimit, having touched none of the later keys of the snapshot.
C12_SweepBound ==
    /\ Len(sweep.examined) <= SweepLimit
    /\ (SweepFinished /\ Len(sweep.keys) > SweepLimit)
          => sweep.examined = SubSeq(sweep.keys, 1, SweepLimit)

\* C27: DeleteExpired removes no live entry, whatever callers do meanwhile.
\* Each examination runs with the write lock held and decides on what the
\* policy cache holds at that moment: a key found expired is deleted; a key
\* found live (a Set refreshed it after the snapshot) is kept with its item; a
\* key no longer held (a Delete removed it after the snapshot) is passed over
\* with nothing changed and no panic.  No other key is touched, and after
\* every examination the sweep goes on to the next key of its snapshot.
C27_SweepKeepsLive ==
    /\ [][(sweep.pc = "examine" /\ sweep'.pc # "examine")
            => LET key == sweep.keys[sweep.pos]
               IN /\ mutexW = Sweeper /\ mutexR = {}
                  /\ sweep'.pc = "unlock" /\ ~panicked'
                  /\ \A k \in Held \ {key} : k \in Held' /\ ItemOf(k)' = ItemOf(k)
                  /\ Held' \subseteq Held
                  /\ CASE Saw(key) = "live"    -> key \in Held' /\ ItemOf(key)' = ItemOf(key)
                       [] Saw(key) = "absent"  -> simpleCache' = simpleCache
                       [] Saw(key) = "expired" -> key \notin Held']_vars
    /\ [][(sweep.pc = "unlock" /\ sweep'.pc # "unlock")
            => /\ sweep'.pc = "loop" /\ sweep'.pos = sweep.pos + 1
               /\ sweep'.keys = sweep.keys]_vars
    /\ [][\A k \in SweepKeys :
            (k \in Held /\ ~Expired(ItemOf(k)) /\ k \notin Held')
            => \E p \in Writers : pc[p] = "Delete" /\ pc'[p] = "DeleteRet"]_vars

C27_Witness ==
    /\ sweep.pc = "unlock" /\ sweep.allExpired
    /\ sweep.found = <<"live", "absent">>
    /\ sweep.examined[1] \in Held /\ sweep.examined[2] \notin Held
    /\ ~panicked

\* C28: on the facade over lru.Cache, DeleteExpired is no use of the keys it
\* examines.  When it returns, having run to the end of its snapshot or
\* stopped at its limit, with no caller taking a step meanwhile, the keys
\* that survive are in the order the callers' operations had produced: that
\* of the snapshot.
C28_SweepKeepsLruOrder ==
    (policy = "lru" /\ SweepFinished /\ sweep.quiet)
        => LruKeys = SelectSeq(sweep.keys, LAMBDA k : k \in DOMAIN cache)

\* The keys whose item was stored by a Set or SetNX without an option
Unlimited == {k \in Held : stored[k] # NoSet /\ stored[k].opts = <<>>}

\* C34: an item that Set or SetNX stored without an expiration option never
\* expires, whatever item it replaced.  As long as no call has stored k again
\* or removed it, the item carries no expiration at any time, every Get(k)
\* returns its value, and the examination of k by DeleteExpired keeps it; it
\* leaves the cache only through a caller's Delete or an eviction.
C34_NoOptionNeverExpires ==
    /\ [](\A k \in Unlimited :
            /\ ItemOf(k) = [value |-> stored[k].value, expiration |-> ZeroTime]
            /\ ~Expired(ItemOf(k))
            /\ GetOutcome(InnerGet(k)) = [v |-> stored[k].value, err |-> Nil])
    /\ [][\A p \in Callers :
            (pc[p] = "Get" /\ pc'[p] = "GetRet" /\ call[p].key \in Unlimited)
            => ret'[p] = [v |-> stored[call[p].key].value, err |-> Nil]]_vars
    /\ [][(sweep.pc = "examine" /\ sweep'.pc # "examine")
            => \A k \in Unlimited : k \in Held' /\ ItemOf(k)' = ItemOf(k)]_vars
    /\ [][\A k \in Unlimited :
            (k \notin Unlimited')
            => \E p \in Callers :
                  /\ pc[p] \in {"Set", "SetNXSet", "Delete"} /\ pc'[p] # pc[p]]_vars

C34_Witness ==
    \E p \in Callers :
        LET k == call[p].key
        IN /\ pc[p] = "GetRet" /\ k \in Unlimited
           /\ ret[p] = [v |-> stored[k].value, err |-> Nil]
           /\ stored[k].t = 1 /\ now = MaxTime /\ MaxTime > 1
           /\ sweep.pc = "loop" /\ sweep.examined = <<k>> /\ sweep.found = <<"live">>

\* A caller that is idle can enter any of the four calls
CanEnter(p) ==
    /\ ENABLED (\E k \in FacadeKeys : GetCall(p, k))
    /\ ENABLED (\E k \in FacadeKeys : SetCall(p, k, 1, <<>>))
    /\ ENABLED (\E k \in FacadeKeys : SetNXCall(p, k, 1, <<>>))
    /\ ENABLED (\E k \in FacadeKeys : DeleteCall(p, k))

\* C35: DeleteExpired holds the read lock only while it takes its snapshot,
\* and the write lock only for one examination at a time: it locks, examines
\* one key, unlocks.  Between two examinations it holds nothing, so a caller
\* that finds the lock free enters its call, and callers waiting for it can
\* be served before the next examination.
C35_SweepLocksPerKey ==
    /\ [](/\ (Sweeper \in mutexR) = (sweep.pc \in {"keys", "runlock"})
          /\ (mutexW = Sweeper) = (sweep.pc \in {"examine", "unlock"})
          /\ sweep.pc = "unlock" => Len(sweep.examined) = sweep.pos
          /\ sweep.pc \in {"loop", "examine"} => Len(sweep.examined) = sweep.pos - 1)
    /\ [][(mutexW = Sweeper /\ sweep'.pc # sweep.pc)
            => \/ sweep.pc = "examine" /\ sweep'.pc = "unlock" /\ mutexW' = Sweeper
               \/ sweep.pc = "unlock" /\ sweep'.pc = "loop" /\ mutexW' = None]_vars
    /\ [](\A p \in Callers :
            (/\ sweep.pc = "loop" /\ ~panicked /\ pc[p] = "idle"
             /\ mutexW = None /\ mutexR = {})
            => CanEnter(p))

C35_Witness ==
    \E p \in Callers :
        /\ sweep.pc = "loop" /\ Len(sweep.keys) = 2
        /\ sweep.pos = 2 /\ Len(sweep.examined) = 1
        /\ pc[p] = "SetRet" /\ mutexW = p /\ call[p].key = sweep.keys[2]

\* The goroutines that are reading, and those that are changing, the policy cache
ReadingCallers == {p \in Procs : pc[p] \in {"Get", "SetNXGet", "Keys"}}

WritingCallers == {p \in Procs : pc[p] \in {"Set", "SetNXSet", "Delete"}}

HoldsLock(p) == mutexW = p \/ p \in mutexR

\* C13: every goroutine that is inside a read or a write of the policy cache
\* (the body of Get, Set, SetNX, Delete or Keys, the snapshot and the
\* examination of DeleteExpired) holds Cache.mutex, so that no read of the
\* policy cache is in progress while another goroutine is changing it.
C13_AllPathsLocked ==
    /\ \A p \in ReadingCallers \cup WritingCallers : HoldsLock(p)
    /\ sweep.pc \in {"keys", "examine"} => HoldsLock(Sweeper)
    /\ (WritingCallers # {} \/ sweep.pc = "examine")
          => \A p \in ReadingCallers : p \in WritingCallers
    /\ torn = {}

\* MoveToFront changes the list unless the element is at the front already
MovesToFront(key) == key \in DOMAIN cache /\ PosIn(linkedDoublyList, key) # 1

\* The callers that are inside a call of lru.Cache that moves, inserts or
\* removes an element of linkedDoublyList
IndexWriters ==
    {p \in Procs :
        /\ policy = "lru"
        /\ CASE pc[p] \in {"Get", "SetNXGet"} -> MovesToFront(call[p].key)
             [] pc[p] \in {"Set", "SetNXSet"} ->
                    call[p].key \notin DOMAIN cache \/ MovesToFront(call[p].key)
             [] pc[p] = "Delete" -> call[p].key \in DOMAIN cache
             [] OTHER -> FALSE}

SweepWritesIndex ==
    /\ policy = "lru" /\ sweep.pc = "examine"
    /\ LET key == sweep.keys[sweep.pos]
       IN MovesToFront(key) \/ (key \in DOMAIN cache /\ Expired(ItemOf(key)))

\* C30: on the facade over lru.Cache, at most one goroutine at a time is
\* inside a call that moves, inserts or removes an element of the list,
\* whatever callers of Get, Set, SetNX and Delete and DeleteExpired do.
C30_OneIndexWriter ==
    Cardinality(IndexWriters) + (IF SweepWritesIndex THEN 1 ELSE 0) <= 1

(***************************************************************************)
(* Properties of the janitor (SpecJanitor, SpecJanitorLive).               *)
(***************************************************************************)
\* C14: the janitor never has two cleanup calls in progress: whatever the
\* order of ticks, cancellation and stop() calls, a cleanup call that the
\* janitor's goroutine started has returned before it starts the next one.
C14_NoConcurrentCleanup ==
    /\ janitor.running <= 1
    /\ janitor.running = 1 <=> janitor.pc \in {"cleanup", "final"}

C14_Witness ==
    /\ janitor.pc = "cleanup" /\ janitor.running = 1
    /\ janitor.tick /\ janitor.num >= 2
    /\ janitor.ctxDone /\ \E c \in Stoppers : stopPc[c] = "locked"

\* C15: once the context is cancelled, j.done is eventually closed and the
\* janitor's goroutine eventually exits (cleanup calls return, select is fair
\* among its ready cases); when it has exited, cleanup has been called at
\* least once.
C15_CancelTerminates ==
    /\ (janitor.ctxDone ~> (janitor.done = "closed" /\ janitor.pc = "exited"))
    /\ [](janitor.pc = "exited" => janitor.num >= 1)

C15_Witness ==
    /\ janitor.ctxDone /\ janitor.pc = "exited" /\ janitor.done = "closed"
    /\ janitor.closer = Task /\ janitor.num = 1

\* C16: whether j.done was closed through the cancellation branch or by a
\* stop() call from outside, the janitor's goroutine leaves its loop only
\* through the j.done branch: it makes one more cleanup call and exits right
\* after it.  Once exited it stays exited and makes no cleanup call, whatever
\* ticks, cancellations or stop() calls follow.
C16_FinalCleanupThenStopped ==
    /\ [][(janitor.pc = "select" /\ janitor'.pc = "final")
            => /\ janitor.done = "closed"
               /\ janitor'.running = 1
               /\ janitor'.num = UpTo(janitor.num, MaxRuns)]_vars
    /\ [][(janitor.pc = "final" /\ janitor'.pc # "final")
            => janitor'.pc = "exited"]_vars
    /\ [][(janitor.pc # "exited" /\ janitor'.pc = "exited")
            => janitor.pc = "final" /\ janitor.num >= 1]_vars
    /\ [][janitor.pc = "exited"
            => /\ janitor'.pc = "exited"
               /\ janitor'.num = janitor.num
               /\ janitor'.running = 0]_vars

C16_Witness ==
    /\ janitor.pc = "exited" /\ janitor.closer \in Stoppers
    /\ janitor.ctxDone /\ janitor.tick
    /\ \E c \in Stoppers : c # janitor.closer /\ stopPc[c] = "ret"

\* C17: janitor.stop() is idempotent: however many calls there are, one after
\* the other or at once, from outside or from the cancellation branch, j.done
\* is closed exactly once and no call panics; a call that finds once done
\* returns and changes nothing.
C17_StopIdempotent ==
    /\ [](/\ ~janitor.panic
          /\ janitor.closes <= 1
          /\ (janitor.done = "closed") = (janitor.closes = 1)
          /\ once.done = (janitor.closes = 1))
    /\ [][\A c \in StopCallers :
            (stopPc[c] = "call" /\ stopPc'[c] # "call" /\ once.done)
            => /\ stopPc'[c] = "ret"
               /\ janitor' = janitor /\ once' = once]_vars
    /\ [][\A c \in StopCallers :
            (stopPc[c] = "locked" /\ stopPc'[c] # "locked" /\ once.done)
            => janitor'.done = janitor.done /\ janitor'.closes = janitor.closes]_vars

C17_Witness ==
    /\ janitor.closes = 1 /\ janitor.closer \in Stoppers
    /\ janitor.stops = MaxStops /\ MaxStops >= 2
    /\ stopPc[Task] = "ret"
    /\ \E c \in Stoppers : stopPc[c] = "locked" /\ once.done

(***************************************************************************)
(* Properties of Close (SpecClose).                                        *)
(***************************************************************************)
\* Some step of the Close call of c can be taken
CloseStep(c) ==
    CloseCheck(c) \/ CloseLock(c) \/ CloseDo(c) \/ CloseSent(c) \/ CloseReturn(c)

Sending == {c \in Closers : closePc[c] \in {"send", "sent"}}

\* C18: Close() is idempotent.  The cleanup goroutine exits exactly when it
\* receives the one signal that the first Close sends, and from then on it
\* starts no sweep.  No other call ever sends.  A Close() called after the
\* first one is done finds once set: it returns at once, with nothing to wait
\* for, and changes nothing, the goroutine having exited or not.
C18_CloseIdempotent ==
    /\ [][cleaner.pc = "exited" => cleaner' = cleaner]_vars
    /\ [][(cleaner.pc # "exited" /\ cleaner'.pc = "exited")
            => \E c \in Closers : /\ closePc[c] = "send" /\ closePc'[c] = "sent"
                                  /\ ~closeOnce.done]_vars
    /\ [](/\ Cardinality(Sending) <= 1
          /\ closeOnce.done => (cleaner.pc = "exited" /\ Sending = {}))
    /\ [][\A c \in Closers :
            (closePc[c] = "call" /\ closePc'[c] # "call" /\ closeOnce.done)
            => /\ closePc'[c] = "ret"
               /\ cleaner' = cleaner /\ closeOnce' = closeOnce]_vars
    /\ [](\A c \in Closers :
            (closeOnce.done /\ closePc[c] # "idle") => ENABLED CloseStep(c))

C18_Witness ==
    /\ cleaner.pc = "exited" /\ cleaner.sweeps >= 1 /\ closeOnce.done
    /\ \E c \in Closers : closePc[c] = "ret" /\ closeOnce.by # c

(***************************************************************************)
(* Properties of the policy caches (SpecPolicy).                           *)
(***************************************************************************)
IsSetStep == last'.op = "Set"

OthersOf(keys, key) == SelectSeq(keys, LAMBDA x : x # key)

\* C6: an LRU cache of capacity N > 0 that starts empty and receives Set of
\* N+1 distinct keys, with no Get or Delete in between, lists the last N of
\* them in insertion order, and the first one is gone (Get fails with ErrNoKey).
C6_LruEviction ==
    (policy = "lru" /\ maxEntries > 0 /\ fresh /\ Len(inserted) = maxEntries + 1)
        => /\ LruKeys = SubSeq(inserted, 2, maxEntries + 1)
           /\ LruGet(inserted[1]).err = ErrNoKey

C6_Witness ==
    /\ policy = "lru" /\ maxEntries = MaxCap /\ maxEntries > 0
    /\ fresh /\ Len(inserted) = maxEntries + 1
    /\ last.op = "Set" /\ last.evicted = {inserted[1]}

\* C7: on a full LRU cache of capacity N >= 2, a Get(k) that hits leaves k most
\* recently used, and the Set of a new key that follows evicts the least
\* recently used of the other keys, never k; k stays present with its value.
C7_LruPromotion ==
    /\ [](policy = "lru" /\ last.op = "Get" /\ last.err = Nil
            => LruKeys[Len(LruKeys)] = last.key)
    /\ [][(/\ policy = "lru" /\ maxEntries >= 2
           /\ Len(linkedDoublyList) = maxEntries
           /\ last.op = "Get" /\ last.err = Nil
           /\ IsSetStep /\ last'.key \notin DOMAIN cache)
          => /\ last'.evicted = {OthersOf(LruKeys, last.key)[1]}
             /\ last.key \in DOMAIN cache'
             /\ StoredIn(cache', linkedDoublyList', last.key) = last.v]_vars

C7_Witness ==
    /\ policy = "lru" /\ maxEntries >= 2
    /\ last.op = "Set" /\ ~last.hit /\ last.evicted # {}
    /\ last.afterHit \in DOMAIN cache

\* C8: a FIFO cache of capacity N > 0 that starts empty and receives Set of
\* N+1 distinct keys lists the last N of them in insertion order, the first
\* one gone; and every Set of a new key on a full FIFO cache removes exactly
\* the key at the front of Keys() and appends the new key at the end.
C8_FifoEviction ==
    /\ []((policy = "fifo" /\ maxEntries > 0 /\ fresh /\ Len(inserted) = maxEntries + 1)
            => /\ FifoKeys = SubSeq(inserted, 2, maxEntries + 1)
               /\ FifoGet(inserted[1]).err = ErrNoKey)
    /\ [][(/\ policy = "fifo" /\ maxEntries > 0
           /\ Len(linkedDoublyList) >= maxEntries
           /\ IsSetStep /\ last'.key \notin DOMAIN cache)
          => /\ FifoKeys' = Append(Tail(FifoKeys), last'.key)
             /\ last'.evicted = {FifoKeys[1]}]_vars

C8_Witness ==
    /\ policy = "fifo" /\ maxEntries = MaxCap /\ maxEntries > 0
    /\ fresh /\ Len(inserted) = maxEntries + 1
    /\ last.op = "Set" /\ last.evicted = {inserted[1]}

PolicyKeys == IF policy = "lru" THEN LruKeys ELSE FifoKeys

\* C19: on an lru or fifo cache, Delete(k) of a key the cache does not hold
\* fails with ErrNoKey and leaves Keys() as it was; Delete(k) of a key it
\* holds, wherever it stands (first, middle, last), returns nil, removes k
\* and nothing else, and keeps the other keys in their order.
C19_DeleteAbsentPresent ==
    [][(policy \in {"lru", "fifo"} /\ last'.op = "Delete")
       => IF last'.key \in DOMAIN cache
          THEN /\ last'.err = Nil
               /\ PolicyKeys' = OthersOf(PolicyKeys, last'.key)
               /\ DOMAIN cache' = (DOMAIN cache) \ {last'.key}
               /\ \A k \in DOMAIN cache' :
                     StoredIn(cache', linkedDoublyList', k)
                        = StoredIn(cache, linkedDoublyList, k)
          ELSE /\ last'.err = ErrNoKey
               /\ PolicyKeys' = PolicyKeys
               /\ cache' = cache]_vars

C19_Witness ==
    /\ policy \in {"lru", "fifo"}
    /\ last.op = "Delete" /\ last.err = Nil /\ last.at = 2
    /\ Len(linkedDoublyList) = 2 /\ last.key \notin DOMAIN cache

\* C24: Get on a fifo cache, hit or miss, changes nothing: the map and the
\* list are the same after it, so Keys(), every stored value and the key that
\* the next eviction removes are what they were.
C24_FifoGetKeepsOrder ==
    /\ [](policy = "fifo"
            => \A k \in KeySet :
                  /\ FifoGet(k).cache = cache
                  /\ FifoGet(k).list = linkedDoublyList)
    /\ [][(policy = "fifo" /\ last'.op = "Get")
            => /\ FifoKeys' = FifoKeys
               /\ cache' = cache
               /\ \A k \in DOMAIN cache :
                     StoredIn(cache', linkedDoublyList', k)
                        = StoredIn(cache, linkedDoublyList, k)
               /\ linkedDoublyList # <<>>
                     => FifoVictim(linkedDoublyList').key = FifoVictim(linkedDoublyList).key
               /\ last'.err = (IF last'.key \in DOMAIN cache THEN Nil ELSE ErrNoKey)]_vars

C24_Witness ==
    /\ policy = "fifo" /\ maxEntries >= 2 /\ Len(linkedDoublyList) = maxEntries
    /\ last.op = "Get" /\ last.err = Nil /\ last.at = 1
    /\ FifoVictim(linkedDoublyList).key = last.key

\* C31: in an lru or fifo cache the map and the list agree after every Set,
\* Get and Delete: the list has as many elements as the map has keys, the
\* keys found by walking the list are the keys of the map, no key and no
\* element occurs twice in the list, and the element the map holds for a key
\* is in the list and carries that key.
C31_MapIndexAgree ==
    policy \in {"lru", "fifo"}
        => /\ Len(linkedDoublyList) = Cardinality(DOMAIN cache)
           /\ {linkedDoublyList[i].key : i \in DOMAIN linkedDoublyList} = DOMAIN cache
           /\ \A i, j \in DOMAIN linkedDoublyList :
                 (linkedDoublyList[i].key = linkedDoublyList[j].key
                    \/ linkedDoublyList[i].id = linkedDoublyList[j].id) => i = j
           /\ \A k \in DOMAIN cache :
                 /\ cache[k] \in ElemIds(linkedDoublyList)
                 /\ ElemOf(linkedDoublyList, cache[k]).key = k

C31_Witness ==
    /\ policy \in {"lru", "fifo"} /\ maxEntries = MaxCap
    /\ last.op = "Delete" /\ last.err = Nil /\ last.at = 1
    /\ Len(linkedDoublyList) = maxEntries - 1 /\ Len(linkedDoublyList) >= 1
    /\ cache[linkedDoublyList[1].key] # 1

\* C32: an lru or fifo cache of capacity N > 0 holds at most N entries after
\* every Set, Get and Delete, and one Set removes at most one entry.
C32_CapacityBound ==
    /\ []((policy \in {"lru", "fifo"} /\ maxEntries > 0)
            => /\ Len(linkedDoublyList) <= maxEntries
               /\ Cardinality(DOMAIN cache) <= maxEntries)
    /\ [][(policy \in {"lru", "fifo"} /\ maxEntries > 0 /\ IsSetStep)
            => /\ Cardinality((DOMAIN cache) \ DOMAIN cache') <= 1
               /\ Len(linkedDoublyList') >= Len(linkedDoublyList)
               /\ Cardinality(last'.evicted) <= 1]_vars

C32_Witness ==
    /\ policy \in {"lru", "fifo"} /\ maxEntries = MaxCap /\ maxEntries > 0
    /\ Len(linkedDoublyList) = maxEntries
    /\ last.op = "Set" /\ Cardinality(last.evicted) = 1 /\ ~fresh

\* C36: Set(k, v) on a key that an lru cache holds, full or not, moves k to
\* the last position of Keys() (most recently used), stores v under it,
\* keeps the other keys in their order with their values and evicts nothing.
C36_LruReSet ==
    [][(policy = "lru" /\ IsSetStep /\ last'.key \in DOMAIN cache)
       => /\ LruKeys' = Append(OthersOf(LruKeys, last'.key), last'.key)
          /\ StoredIn(cache', linkedDoublyList', last'.key) = last'.value
          /\ \A k \in (DOMAIN cache) \ {last'.key} :
                StoredIn(cache', linkedDoublyList', k)
                   = StoredIn(cache, linkedDoublyList, k)
          /\ cache' = cache
          /\ last'.evicted = {}
          /\ last'.err = Nil]_vars

C36_Witness ==
    /\ policy = "lru" /\ maxEntries = MidCap /\ Len(linkedDoublyList) = maxEntries
    /\ last.op = "Set" /\ last.hit /\ last.at = Len(linkedDoublyList)
    /\ LruKeys[Len(LruKeys)] = last.key
    /\ LruGet(last.key).v = 2 /\ last.value = 2
    /\ \E k \in DOMAIN cache : StoredIn(cache, linkedDoublyList, k) = 1

\* C10: a FIFO cache of capacity 0 accepts Set without a panic, and after every
\* Set it holds nothing: Keys() is empty and Get of the key just set fails
\* with ErrNoKey.
C10_FifoZeroCapacity ==
    (policy = "fifo" /\ maxEntries = 0)
        => /\ ~panicked
           /\ FifoKeys = <<>>
           /\ (last.op = "Set" => FifoGet(last.key).err = ErrNoKey)

====
